---- MODULE Spec2Model ----
(***************************************************************************)
(* Model of the accounts HTTP client (accounts_client.go): the three       *)
(* operations Fetch, Create and Delete, the response pipeline they share   *)
(* (readPayload, status check, content-type check,                         *)
(* deserializeToResponseEnvelope, accountDataOrError) and the HTTPError    *)
(* they produce.  The transport primitives of httpAccountsClientImpl are   *)
(* the environment: every call draws what they hand back.                  *)
(*                                                                         *)
(* Spec runs calls one at a time on a client MakeClient built; SpecFactory *)
(* runs the factories of AccountsHttpClientFactory over base addresses;    *)
(* SpecConcurrent runs the calls of several callers of one client          *)
(* interleaved; SpecTargets runs Spec's calls on clients of several base   *)
(* addresses.                                                              *)
(***************************************************************************)
EXTENDS Integers, Sequences, FiniteSets, TLC

(***************************************************************************)
(* Bounds of the environment.                                              *)
(***************************************************************************)
\* number of distinct error values the primitives can fail with
NumErrs == 2
\* number of response status codes beyond 200, 201 and 204
NumOtherStatus == 1

(***************************************************************************)
(* Go values: a nil pointer / nil error is Nil, a non-nil one is Ptr(x).   *)
(***************************************************************************)
Nil == <<>>
Ptr(x) == <<x>>
Deref(p) == p[1]

\* the one-character string at position i of s, "" past the end
Ch(s, i) == IF i >= 1 /\ i <= Len(s) THEN SubSeq(s, i, i) ELSE ""
\* s[i:j] clipped to the string (positions are 1-based and inclusive)
Sub(s, i, j) == IF j > Len(s) THEN SubSeq(s, i, Len(s)) ELSE SubSeq(s, i, j)
\* equality where a prefix test is meant
HasPrefixWholeString(s, prefix) == s = prefix
HasPrefix(s, prefix) == Len(s) >= Len(prefix) /\ SubSeq(s, 1, Len(prefix)) = prefix

\* the path without its version segment
servicePathWithoutVersion == "organisation/accounts"
servicePath == "v1/organisation/accounts"
jsonContentType == "application/json"
contentType == "Content-Type"
StatusOK == 200
StatusCreated == 201
\* Delete expecting the status of Fetch
StatusNoContentAsOK == StatusOK
StatusNoContent == 204

(***************************************************************************)
(* isValidUUID: uuid.Parse accepts the 36-character hyphenated form, the   *)
(* same with a "urn:uuid:" prefix (45), the same wrapped in any two        *)
(* characters (38; the braces are not checked) and 32 hex digits.          *)
(***************************************************************************)
HexDigits == {"0", "1", "2", "3", "4", "5", "6", "7", "8", "9",
              "a", "b", "c", "d", "e", "f", "A", "B", "C", "D", "E", "F"}
UrnPrefixes == {"urn:uuid:", "URN:UUID:", "Urn:Uuid:"}
HyphenPositions == {9, 14, 19, 24}
IsHyphenated(s) ==
    /\ Len(s) >= 36
    /\ \A i \in 1..36 : IF i \in HyphenPositions THEN Ch(s, i) = "-"
                                                 ELSE Ch(s, i) \in HexDigits
\* a check of the length alone
isValidUUIDLengthOnly(u) == Len(u) \in {32, 36, 38, 45}
isValidUUID(u) ==
    CASE Len(u) = 36 -> IsHyphenated(u)
      [] Len(u) = 45 -> Sub(u, 1, 9) \in UrnPrefixes /\ IsHyphenated(Sub(u, 10, 45))
      [] Len(u) = 38 -> IsHyphenated(Sub(u, 2, 38))
      [] Len(u) = 32 -> \A i \in 1..32 : Ch(u, i) \in HexDigits
      [] OTHER -> FALSE

(***************************************************************************)
(* json.Unmarshal, first half: the syntax of the document.  A JSON value   *)
(* is [t |-> kind, v |-> content]; an object's content is its sequence of  *)
(* <<key, value>> members in document order.  Numbers are integers, which  *)
(* is all the bodies below use.                                            *)
(*                                                                         *)
(* A Go string is modelled by a string over printable ASCII, line feed,    *)
(* carriage return, tab, U+FFFD (Replacement) and InvalidByte, the one     *)
(* character that stands for a byte that is not valid UTF-8 (0xFF).        *)
(***************************************************************************)
InvalidByte == "ÿ"
Replacement == "�"
\* the characters of code 32 to 95 and of code 97 to 126
AsciiFrom32 == " !\"#$%&'()*+,-./0123456789:;<=>?@ABCDEFGHIJKLMNOPQRSTUVWXYZ[\\]^_"
AsciiFrom97 == "abcdefghijklmnopqrstuvwxyz{|}~"
HexChars == "0123456789abcdefABCDEF"
HexVal(c) ==
    LET i == CHOOSE k \in 1..22 : Ch(HexChars, k) = c
    IN  IF i <= 16 THEN i - 1 ELSE i - 7
HexNum(h) ==
    4096 * HexVal(Ch(h, 1)) + 256 * HexVal(Ch(h, 2)) + 16 * HexVal(Ch(h, 3)) + HexVal(Ch(h, 4))
\* the character of a \uXXXX escape; a code point outside the alphabet of the
\* model stays written as its escape
CodePoint(h) ==
    LET n == HexNum(h)
    IN  CASE n >= 32 /\ n <= 95 -> Ch(AsciiFrom32, n - 31)
          [] n >= 97 /\ n <= 126 -> Ch(AsciiFrom97, n - 96)
          [] n = 9 -> "\t"
          [] n = 10 -> "\n"
          [] n = 13 -> "\r"
          [] n = 65533 -> Replacement
          [] OTHER -> "\\u" \o h
\* the character of a one-letter escape (\b, which has no character in the model,
\* stays written as its escape)
EscapeLetters == {"\"", "\\", "/", "b", "f", "n", "r", "t"}
SimpleEscape(c) ==
    CASE c = "n" -> "\n"
      [] c = "r" -> "\r"
      [] c = "t" -> "\t"
      [] c = "f" -> "\f"
      [] c = "b" -> "\\b"
      [] OTHER -> c
\* unquote: escapes are replaced by their characters, a byte that is not valid
\* UTF-8 by U+FFFD
RECURSIVE Unescape(_)
Unescape(str) ==
    IF str = "" THEN ""
    ELSE IF Ch(str, 1) = "\\"
    THEN IF Ch(str, 2) = "u"
         THEN CodePoint(Sub(str, 3, 6)) \o Unescape(Sub(str, 7, Len(str)))
         ELSE SimpleEscape(Ch(str, 2)) \o Unescape(Sub(str, 3, Len(str)))
    ELSE (IF Ch(str, 1) = InvalidByte THEN Replacement ELSE Ch(str, 1))
         \o Unescape(Sub(str, 2, Len(str)))
Digits == {"0", "1", "2", "3", "4", "5", "6", "7", "8", "9"}
DigitVal == [c \in Digits |-> CHOOSE n \in 0..9 : ToString(n) = c]
JNull == [t |-> "null", v |-> Nil]
JVal(t, v) == [t |-> t, v |-> v]
POk(v, i) == [ok |-> TRUE, v |-> v, i |-> i, err |-> ""]
PFail(msg) == [ok |-> FALSE, v |-> JNull, i |-> 0, err |-> msg]
InvalidChar(c, context) ==
    IF c = "" THEN PFail("unexpected end of JSON input")
    ELSE PFail("invalid character '" \o c \o "' " \o context)

RECURSIVE SkipWs(_, _)
SkipWs(s, i) == IF Ch(s, i) \in {" ", "\t", "\n", "\r"} THEN SkipWs(s, i + 1) ELSE i

\* position of the quote that closes a string whose content starts at i; 0 if
\* the input ends first; -k if the character at k cannot stand where it does
RECURSIVE ScanString(_, _)
ScanString(s, i) ==
    IF i > Len(s) THEN 0
    ELSE IF Ch(s, i) = "\"" THEN i
    ELSE IF Ch(s, i) \in {"\n", "\r", "\t", "\f"} THEN -i
    ELSE IF Ch(s, i) # "\\" THEN ScanString(s, i + 1)
    ELSE IF i + 1 > Len(s) THEN 0
    ELSE IF Ch(s, i + 1) \in EscapeLetters THEN ScanString(s, i + 2)
    ELSE IF Ch(s, i + 1) # "u" THEN -(i + 1)
    ELSE LET bad == {k \in (i + 2)..(i + 5) : Ch(s, k) \notin HexDigits}
             first == CHOOSE k \in bad : \A m \in bad : k <= m
         IN  IF bad = {} THEN ScanString(s, i + 6)
             ELSE IF first > Len(s) THEN 0
             ELSE -first

RECURSIVE ScanDigits(_, _)
ScanDigits(s, i) == IF Ch(s, i) \in Digits THEN ScanDigits(s, i + 1) ELSE i

RECURSIVE DigitsToInt(_)
DigitsToInt(s) ==
    IF Len(s) = 0 THEN 0
    ELSE 10 * DigitsToInt(SubSeq(s, 1, Len(s) - 1)) + DigitVal[Ch(s, Len(s))]

ParseLiteral(s, j, word, val) ==
    IF Sub(s, j, j + Len(word) - 1) = word THEN POk(val, j + Len(word))
    ELSE IF j + Len(word) - 1 > Len(s) THEN PFail("unexpected end of JSON input")
    ELSE PFail("invalid character in literal " \o word)

ParseNumber(s, j) ==
    LET d == IF Ch(s, j) = "-" THEN j + 1 ELSE j
        e == ScanDigits(s, d)
    IN  IF e = d THEN InvalidChar(Ch(s, d), "in numeric literal")
        ELSE IF Ch(s, d) = "0" /\ e > d + 1 THEN InvalidChar(Ch(s, d + 1), "after top-level value")
        ELSE POk(JVal("num", (IF d = j THEN 1 ELSE -1) * DigitsToInt(SubSeq(s, d, e - 1))), e)

\* the string literal that starts at j, given e, what ScanString found
StringOrError(s, j, e) ==
    IF e = 0 THEN PFail("unexpected end of JSON input")
    ELSE IF e > 0 THEN POk(JVal("str", Unescape(SubSeq(s, j + 1, e - 1))), e + 1)
    ELSE InvalidChar(Ch(s, -e),
                     IF Ch(s, -e - 1) = "\\" THEN "in string escape code"
                     ELSE IF Ch(s, -e) \in {"\n", "\r", "\t", "\f"} THEN "in string literal"
                     ELSE "in \\u hexadecimal character escape")
ParseString(s, j) == StringOrError(s, j, ScanString(s, j + 1))

RECURSIVE ParseValue(_, _), ParseMembers(_, _, _), ParseElems(_, _, _)
ParseValue(s, i) ==
    LET j == SkipWs(s, i)
        c == Ch(s, j)
    IN  CASE c = "{" -> ParseMembers(s, j + 1, <<>>)
          [] c = "[" -> ParseElems(s, j + 1, <<>>)
          [] c = "\"" -> ParseString(s, j)
          [] c = "n" -> ParseLiteral(s, j, "null", JNull)
          [] c = "t" -> ParseLiteral(s, j, "true", JVal("bool", TRUE))
          [] c = "f" -> ParseLiteral(s, j, "false", JVal("bool", FALSE))
          [] c \in Digits \cup {"-"} -> ParseNumber(s, j)
          [] OTHER -> InvalidChar(c, "looking for beginning of value")

\* the members of an object, i is just after "{" (acc empty) or after a ","
ParseMembers(s, i, acc) ==
    LET j == SkipWs(s, i)
        c == Ch(s, j)
    IN  IF c = "}" /\ acc = <<>> THEN POk(JVal("obj", acc), j + 1)
        ELSE IF c # "\"" THEN InvalidChar(c, "looking for beginning of object key string")
        ELSE LET key == ParseString(s, j)
                 k == SkipWs(s, key.i)
             IN  IF ~key.ok THEN key
                 ELSE IF Ch(s, k) # ":" THEN InvalidChar(Ch(s, k), "after object key")
                 ELSE LET val == ParseValue(s, k + 1)
                          m == SkipWs(s, val.i)
                          acc2 == Append(acc, <<key.v.v, val.v>>)
                      IN  IF ~val.ok THEN val
                          ELSE IF Ch(s, m) = "," THEN ParseMembers(s, m + 1, acc2)
                          ELSE IF Ch(s, m) = "}" THEN POk(JVal("obj", acc2), m + 1)
                          ELSE InvalidChar(Ch(s, m), "after object key:value pair")

\* the elements of an array, i is just after "[" (acc empty) or after a ","
ParseElems(s, i, acc) ==
    LET j == SkipWs(s, i)
    IN  IF Ch(s, j) = "]" /\ acc = <<>> THEN POk(JVal("arr", acc), j + 1)
        ELSE LET val == ParseValue(s, j)
                 m == SkipWs(s, val.i)
                 acc2 == Append(acc, val.v)
             IN  IF ~val.ok THEN val
                 ELSE IF Ch(s, m) = "," THEN ParseElems(s, m + 1, acc2)
                 ELSE IF Ch(s, m) = "]" THEN POk(JVal("arr", acc2), m + 1)
                 ELSE InvalidChar(Ch(s, m), "after array element")

\* checkValid: one value, then only white space
ParseJSON(s) ==
    LET r == ParseValue(s, 1)
        e == SkipWs(s, r.i)
    IN  IF ~r.ok THEN r
        ELSE IF e <= Len(s) THEN InvalidChar(Ch(s, e), "after top-level value")
        ELSE r

(***************************************************************************)
(* json.Unmarshal, second half: storing the document into Go values.  A    *)
(* struct is a function from its Go field names to their values; a field   *)
(* table lists <<json key, Go field, Go type>>.  A string field holds a    *)
(* string, every pointer or slice field holds Nil or Ptr(value).           *)
(***************************************************************************)
EnvelopeFields == << <<"data", "Data", "*AccountData">> >>
AccountDataFields ==
    << <<"attributes", "Attributes", "*AccountAttributes">>,
       <<"id", "ID", "string">>,
       <<"organisation_id", "OrganisationID", "string">>,
       <<"type", "Type", "string">>,
       <<"version", "Version", "*int64">> >>
AccountAttributesFields ==
    << <<"account_classification", "AccountClassification", "*string">>,
       <<"account_matching_opt_out", "AccountMatchingOptOut", "*bool">>,
       <<"account_number", "AccountNumber", "string">>,
       <<"alternative_names", "AlternativeNames", "[]string">>,
       <<"bank_id", "BankID", "string">>,
       <<"bank_id_code", "BankIDCode", "string">>,
       <<"base_currency", "BaseCurrency", "string">>,
       <<"bic", "Bic", "string">>,
       <<"country", "Country", "*string">>,
       <<"customer_id", "CustomerId", "string">>,
       <<"iban", "Iban", "string">>,
       <<"joint_account", "JointAccount", "*bool">>,
       <<"name", "Name", "[]string">>,
       <<"secondary_identification", "SecondaryIdentification", "string">>,
       <<"status", "Status", "*string">>,
       <<"switched", "Switched", "*bool">> >>
StructKinds == {"*Envelope", "*AccountData", "*AccountAttributes"}
StructFields(kind) ==
    CASE kind = "*Envelope" -> EnvelopeFields
      [] kind = "*AccountData" -> AccountDataFields
      [] kind = "*AccountAttributes" -> AccountAttributesFields
ZeroValue(kind) == IF kind = "string" THEN "" ELSE Nil
FieldRow(fields, f) == fields[CHOOSE i \in DOMAIN fields : fields[i][2] = f]
ZeroStruct(fields) ==
    [f \in {fields[i][2] : i \in DOMAIN fields} |-> ZeroValue(FieldRow(fields, f)[3])]

\* AccountData{}
ZeroAccount == ZeroStruct(AccountDataFields)

UpperCase == "ABCDEFGHIJKLMNOPQRSTUVWXYZ"
LowerCase == "abcdefghijklmnopqrstuvwxyz"
LowerCh(c) ==
    IF \E i \in 1..26 : Ch(UpperCase, i) = c
    THEN Ch(LowerCase, CHOOSE i \in 1..26 : Ch(UpperCase, i) = c)
    ELSE c
RECURSIVE ToLower(_)
ToLower(s) == IF Len(s) = 0 THEN "" ELSE LowerCh(Ch(s, 1)) \o ToLower(SubSeq(s, 2, Len(s)))
\* the row of the field a json key is stored into, 0 if the key is unknown:
\* an exact match of the tag first, then a match that ignores case
FieldIndex(fields, key) ==
    IF \E i \in DOMAIN fields : fields[i][1] = key
    THEN CHOOSE i \in DOMAIN fields : fields[i][1] = key
    ELSE IF \E i \in DOMAIN fields : fields[i][1] = ToLower(key)
    THEN CHOOSE i \in DOMAIN fields : fields[i][1] = ToLower(key)
    ELSE 0

JsonKindName(t) ==
    CASE t = "str" -> "string" [] t = "num" -> "number" [] t = "bool" -> "bool"
      [] t = "obj" -> "object" [] t = "arr" -> "array" [] OTHER -> "null"
UnmarshalTypeError(t, kind) ==
    "json: cannot unmarshal " \o JsonKindName(t) \o " into Go value of type " \o kind
Stored(v) == [v |-> v, err |-> ""]
NotStored(cur, t, kind) == [v |-> cur, err |-> UnmarshalTypeError(t, kind)]

\* the strings of a JSON array of strings and nulls; a null leaves its element ""
StringElems(elems) == [i \in DOMAIN elems |-> IF elems[i].t = "str" THEN elems[i].v ELSE ""]

\* Store the JSON value jv into a Go value of type kind that now holds cur.
\* The first type error is kept and decoding goes on, as in encoding/json.
RECURSIVE DecodeValue(_, _, _), DecodeMembers(_, _, _, _)
DecodeValue(kind, cur, jv) ==
    IF jv.t = "null" THEN Stored(IF kind = "string" THEN cur ELSE Nil)
    ELSE CASE kind = "string" ->
                IF jv.t = "str" THEN Stored(jv.v) ELSE NotStored(cur, jv.t, kind)
           [] kind = "*string" ->
                IF jv.t = "str" THEN Stored(Ptr(jv.v)) ELSE NotStored(cur, jv.t, kind)
           [] kind = "*bool" ->
                IF jv.t = "bool" THEN Stored(Ptr(jv.v)) ELSE NotStored(cur, jv.t, kind)
           [] kind = "*int64" ->
                IF jv.t = "num" THEN Stored(Ptr(jv.v)) ELSE NotStored(cur, jv.t, kind)
           [] kind = "[]string" ->
                IF jv.t # "arr" THEN NotStored(cur, jv.t, kind)
                ELSE IF \E i \in DOMAIN jv.v : jv.v[i].t \notin {"str", "null"}
                THEN NotStored(cur, (jv.v[CHOOSE i \in DOMAIN jv.v :
                                            jv.v[i].t \notin {"str", "null"}]).t, "string")
                ELSE Stored(Ptr(StringElems(jv.v)))
           [] kind \in StructKinds ->
                IF jv.t # "obj" THEN NotStored(cur, jv.t, kind)
                ELSE LET fields == StructFields(kind)
                         start == IF cur = Nil THEN ZeroStruct(fields) ELSE Deref(cur)
                         r == DecodeMembers(fields, start, jv.v, "")
                     IN  [v |-> Ptr(r.v), err |-> r.err]

DecodeMembers(fields, cur, members, err) ==
    IF members = <<>> THEN [v |-> cur, err |-> err]
    ELSE LET m == Head(members)
             idx == FieldIndex(fields, m[1])
         IN  IF idx = 0 THEN DecodeMembers(fields, cur, Tail(members), err)
             ELSE LET f == fields[idx][2]
                      r == DecodeValue(fields[idx][3], cur[f], m[2])
                  IN  DecodeMembers(fields, [cur EXCEPT ![f] = r.v], Tail(members),
                                    IF err = "" THEN r.err ELSE err)

\* what Unmarshal returns once the document is decoded: the value and the first error
Decoded(r) == [v |-> r.v, err |-> IF r.err = "" THEN Nil ELSE Ptr(r.err)]
\* a document with a syntax error is not decoded at all
UnmarshalDocument(doc) ==
    IF ~doc.ok THEN [v |-> Nil, err |-> Ptr(doc.err)]
    ELSE Decoded(DecodeValue("*Envelope", Nil, doc.v))
\* json.Unmarshal(data, &p) for p a nil *Envelope[AccountData]
Unmarshal(data) == UnmarshalDocument(ParseJSON(data))

(***************************************************************************)
(* json.Marshal of the request envelope.  The fields of AccountData and    *)
(* AccountAttributes are omitted when empty; the envelope's data is not.   *)
(***************************************************************************)
\* how the encoder writes one character of a string: quotes, backslashes and
\* control characters escaped, <, > and & as \u escapes, a byte that is not valid
\* UTF-8 as the escape of U+FFFD
EscapeChar(c) ==
    CASE c = "\"" -> "\\\""
      [] c = "\\" -> "\\\\"
      [] c = "\n" -> "\\n"
      [] c = "\r" -> "\\r"
      [] c = "\t" -> "\\t"
      [] c = "<" -> "\\u003c"
      [] c = ">" -> "\\u003e"
      [] c = "&" -> "\\u0026"
      [] c = InvalidByte -> "\\ufffd"
      [] OTHER -> c
RECURSIVE EscapeString(_)
EscapeString(str) ==
    IF str = "" THEN "" ELSE EscapeChar(Ch(str, 1)) \o EscapeString(Sub(str, 2, Len(str)))
Quote(str) == "\"" \o EscapeString(str) \o "\""
OmitEmpty(kind) == kind # "*AccountData"
IsEmptyValue(kind, v) ==
    CASE kind = "string" -> v = ""
      [] kind = "[]string" -> v = Nil \/ Deref(v) = <<>>
      [] OTHER -> v = Nil
RECURSIVE JoinStrings(_), MarshalValue(_, _), MarshalFields(_, _, _, _)
JoinStrings(strs) ==
    IF strs = <<>> THEN ""
    ELSE Quote(Head(strs)) \o (IF Len(strs) > 1 THEN "," ELSE "") \o JoinStrings(Tail(strs))
MarshalValue(kind, v) ==
    CASE kind = "string" -> Quote(v)
      [] v = Nil -> "null"
      [] kind = "*string" -> Quote(Deref(v))
      [] kind = "*bool" -> IF Deref(v) THEN "true" ELSE "false"
      [] kind = "*int64" -> ToString(Deref(v))
      [] kind = "[]string" -> "[" \o JoinStrings(Deref(v)) \o "]"
      [] kind \in StructKinds -> "{" \o MarshalFields(StructFields(kind), Deref(v), 1, TRUE) \o "}"
MarshalFields(fields, struct, i, first) ==
    IF i > Len(fields) THEN ""
    ELSE LET kind == fields[i][3]
             v == struct[fields[i][2]]
         IN  IF OmitEmpty(kind) /\ IsEmptyValue(kind, v)
             THEN MarshalFields(fields, struct, i + 1, first)
             ELSE (IF first THEN "" ELSE ",") \o Quote(fields[i][1]) \o ":"
                  \o MarshalValue(kind, v) \o MarshalFields(fields, struct, i + 1, FALSE)
\* the account is serialized bare, without the envelope around it
MarshalWithoutEnvelope(account) == MarshalValue("*AccountData", account)
\* json.Marshal(Envelope[AccountData]{Data: account})
Marshal(account) == MarshalValue("*Envelope", Ptr([Data |-> account]))

(***************************************************************************)
(* HTTPError and the outcome of one call.  A call either returns its       *)
(* (data, err) pair or panics; calls is the sequence of primitives it      *)
(* invoked, closed tells whether the deferred resp.Body.Close() ran.       *)
(***************************************************************************)
\* the underlying error is not kept
HTTPErrorWithoutCause(cause, message, statusCode, responsePayload) ==
    [Cause |-> Nil, Message |-> message, StatusCode |-> statusCode,
     ResponsePayload |-> responsePayload]
HTTPError(cause, message, statusCode, responsePayload) ==
    [Cause |-> cause, Message |-> message, StatusCode |-> statusCode,
     ResponsePayload |-> responsePayload]
\* HTTPError.Error()
\* the cause is left out of the text
ErrorTextWithoutCause(e) == e.Message
ErrorText(e) == IF e.Cause = Nil THEN e.Message ELSE e.Message \o " : " \o Deref(e.Cause)

Invocation(fn, arguments) == [fn |-> fn, args |-> arguments]
Returned(data, err, calls) ==
    [ret |-> "returned", data |-> data, err |-> err, calls |-> calls, closed |-> FALSE]
Panicked(calls) ==
    [ret |-> "panicked", data |-> Nil, err |-> Nil, calls |-> calls, closed |-> FALSE]
\* defer resp.Body.Close(): runs when the function returns and when it panics
DeferClose(registered, outcome) ==
    IF registered
    THEN [outcome EXCEPT !.closed = TRUE,
                         !.calls = Append(@, Invocation("Body.Close", <<>>))]
    ELSE outcome

\* expected and actual swapped in the error
unexpectedStatusCodeSwapped(expected, actual, operation, respPayload) ==
    HTTPError(Nil,
              "Unexpected response code returned for " \o operation \o " operation, expected "
                  \o ToString(actual) \o ", got " \o ToString(expected),
              expected, respPayload)
\* the payload that was read is dropped
unexpectedStatusCodeNoPayload(expected, actual, operation, respPayload) ==
    HTTPError(Nil,
              "Unexpected response code returned for " \o operation \o " operation, expected "
                  \o ToString(expected) \o ", got " \o ToString(actual),
              actual, Nil)
\* the error reports the status that was expected as the one received
unexpectedStatusCodeExpectedAsStatus(expected, actual, operation, respPayload) ==
    HTTPError(Nil,
              "Unexpected response code returned for " \o operation \o " operation, expected "
                  \o ToString(expected) \o ", got " \o ToString(actual),
              expected, respPayload)
unexpectedStatusCode(expected, actual, operation, respPayload) ==
    HTTPError(Nil,
              "Unexpected response code returned for " \o operation \o " operation, expected "
                  \o ToString(expected) \o ", got " \o ToString(actual),
              actual, respPayload)

\* hac.readInput(resp.Body): the bytes of the body, or the error of the stream
readInput(body) ==
    [data |-> IF body.readErr = Nil THEN body.content ELSE "", err |-> body.readErr]

\* the reader's error is dropped and the pipeline goes on with no bytes
readPayloadIgnoringError(resp, calls) ==
    IF resp = Nil THEN [panic |-> TRUE, data |-> Nil, err |-> Nil, calls |-> calls]
    ELSE [panic |-> FALSE, data |-> Ptr(readInput(Deref(resp).Body).data),
          calls |-> Append(calls, Invocation("readInput", <<>>)), err |-> Nil]
\* what was read before the stream failed is attached to the error
readPayloadAttachingPartialBytes(resp, calls) ==
    IF resp = Nil THEN [panic |-> TRUE, data |-> Nil, err |-> Nil, calls |-> calls]
    ELSE LET r == readInput(Deref(resp).Body)
             calls2 == Append(calls, Invocation("readInput", <<>>))
         IN  IF r.err # Nil
             THEN [panic |-> FALSE, data |-> Nil, calls |-> calls2,
                   err |-> Ptr(HTTPError(r.err, "Error processing response body", 0,
                                         Ptr(r.data)))]
             ELSE [panic |-> FALSE, data |-> Ptr(r.data), calls |-> calls2, err |-> Nil]
\* a failed read is tried a second time before giving up
readPayloadRetrying(resp, calls) ==
    IF resp = Nil THEN [panic |-> TRUE, data |-> Nil, err |-> Nil, calls |-> calls]
    ELSE LET r == readInput(Deref(resp).Body)
             calls2 == Append(calls, Invocation("readInput", <<>>))
         IN  IF r.err # Nil
             THEN [panic |-> FALSE, data |-> Nil,
                   calls |-> Append(calls2, Invocation("readInput", <<>>)),
                   err |-> Ptr(HTTPError(r.err, "Error processing response body", 0, Nil))]
             ELSE [panic |-> FALSE, data |-> Ptr(r.data), calls |-> calls2, err |-> Nil]
\* readPayload dereferences resp: a nil resp is a nil-pointer panic
readPayload(resp, calls) ==
    IF resp = Nil THEN [panic |-> TRUE, data |-> Nil, err |-> Nil, calls |-> calls]
    ELSE LET r == readInput(Deref(resp).Body)
             calls2 == Append(calls, Invocation("readInput", <<>>))
         IN  IF r.err # Nil
             THEN [panic |-> FALSE, data |-> Nil, calls |-> calls2,
                   err |-> Ptr(HTTPError(r.err, "Error processing response body", 0, Nil))]
             ELSE [panic |-> FALSE, data |-> Ptr(r.data), calls |-> calls2, err |-> Nil]

\* the raw body is not attached to the deserialization error
EnvelopeOrErrorWithoutPayload(u, responseData) ==
    IF u.err # Nil
    THEN [envelope |-> Nil, err |-> Ptr(HTTPError(u.err, "Error deserializing json", 0, Nil))]
    ELSE [envelope |-> u.v, err |-> Nil]
\* the result of deserializeToResponseEnvelope, given what json.Unmarshal returned
EnvelopeOrError(u, responseData) ==
    IF u.err # Nil
    THEN [envelope |-> Nil,
          err |-> Ptr(HTTPError(u.err, "Error deserializing json", 0, responseData))]
    ELSE [envelope |-> u.v, err |-> Nil]
deserializeToResponseEnvelope(responseData) ==
    EnvelopeOrError(Unmarshal(Deref(responseData)), responseData)

EmptyObjectMessage == "Got an empty object after deserialization, json payload was an empty object?"
\* the guard on Data is missing
accountDataOrErrorUnguarded(responseEnvelope, responseData, calls) ==
    IF responseEnvelope = Nil THEN Panicked(calls)
    ELSE Returned(Deref(responseEnvelope).Data, Nil, calls)
\* the guard also rejects an AccountData with nothing in it
accountDataOrErrorRejectingZero(responseEnvelope, responseData, calls) ==
    IF responseEnvelope = Nil THEN Panicked(calls)
    ELSE IF Deref(responseEnvelope).Data \in {Nil, Ptr(ZeroAccount)}
    THEN Returned(Nil, Ptr(HTTPError(Nil, EmptyObjectMessage, 0, responseData)), calls)
    ELSE Returned(Deref(responseEnvelope).Data, Nil, calls)
\* accountDataOrError dereferences responseEnvelope: a nil envelope is a panic
accountDataOrError(responseEnvelope, responseData, calls) ==
    IF responseEnvelope = Nil THEN Panicked(calls)
    ELSE IF Deref(responseEnvelope).Data = Nil
    THEN Returned(Nil, Ptr(HTTPError(Nil, EmptyObjectMessage, 0, responseData)), calls)
    ELSE Returned(Deref(responseEnvelope).Data, Nil, calls)

\* return the deserialization error, or else what accountDataOrError returns
DataOrDeserializationError(d, responseData, calls) ==
    IF d.err # Nil THEN Returned(Nil, d.err, calls)
    ELSE accountDataOrError(d.envelope, responseData, calls)
\* the tail Fetch and Create share: parse the body, then hand out its data
ParseResponse(responseData, calls) ==
    DataOrDeserializationError(deserializeToResponseEnvelope(responseData), responseData,
                               Append(calls, Invocation("json.Unmarshal", <<Deref(responseData)>>)))

InvalidIdError == HTTPError(Nil, "id must be a valid uuid", 0, Nil)

(***************************************************************************)
(* The three operations.  e is what the injected primitives hand back in   *)
(* this call: e.transport = [resp, err] for doHttpGet / doHttpPost /       *)
(* doRequest, e.serializeErr for serialize, e.buildErr for                 *)
(* createNewRequest.                                                       *)
(***************************************************************************)
Fetch(client, id, e) ==
    IF ~isValidUUID(id) THEN Returned(Nil, Ptr(InvalidIdError), <<>>)
    ELSE
    LET path == client.host \o "/" \o servicePath \o "/" \o id
        calls == <<Invocation("doHttpGet", <<path>>)>>
        resp == e.transport.resp
        err == e.transport.err
    IN  IF err # Nil
        THEN Returned(Nil, Ptr(HTTPError(err, "Error placing a Get Http request", 0, Nil)), calls)
        ELSE DeferClose(resp # Nil,
          LET rp == readPayload(resp, calls)
              statusCode == Deref(resp).StatusCode
              cType == Deref(resp).ContentType
          IN  IF rp.panic THEN Panicked(rp.calls)
              ELSE IF rp.err # Nil THEN Returned(Nil, rp.err, rp.calls)
              ELSE IF statusCode # StatusOK
              THEN Returned(Nil, Ptr(unexpectedStatusCode(StatusOK, statusCode, "Get", rp.data)),
                            rp.calls)
              ELSE IF ~HasPrefix(cType, jsonContentType)
              THEN Returned(Nil,
                            Ptr(HTTPError(Nil,
                                          "Unexpected  " \o contentType \o ", expecting "
                                              \o jsonContentType \o ", got " \o cType,
                                          statusCode, rp.data)),
                            rp.calls)
              ELSE ParseResponse(rp.data, rp.calls))

\* Create with the Content-Type check of Fetch
CreateCheckingContentType(client, account, e) ==
    LET calls0 == <<Invocation("serialize", <<account>>)>>
        requestData == Marshal(account)
        calls == Append(calls0, Invocation("doHttpPost",
                     <<client.host \o "/" \o servicePath, jsonContentType, requestData>>))
        resp == e.transport.resp
        err == e.transport.err
    IN  IF e.serializeErr # Nil
        THEN Returned(Nil, Ptr(HTTPError(e.serializeErr, "Unable to serialize payload", 0, Nil)),
                      calls0)
        ELSE DeferClose(resp # Nil,
          IF err # Nil
          THEN Returned(Nil, Ptr(HTTPError(err, "Error placing a Post Http request", 0, Nil)),
                        calls)
          ELSE
          LET rp == readPayload(resp, calls)
              statusCode == Deref(resp).StatusCode
              cType == Deref(resp).ContentType
          IN  IF rp.panic THEN Panicked(rp.calls)
              ELSE IF rp.err # Nil THEN Returned(Nil, rp.err, rp.calls)
              ELSE IF statusCode # StatusCreated
              THEN Returned(Nil,
                            Ptr(unexpectedStatusCode(StatusCreated, statusCode, "Post", rp.data)),
                            rp.calls)
              ELSE IF ~HasPrefix(cType, jsonContentType)
              THEN Returned(Nil,
                            Ptr(HTTPError(Nil,
                                          "Unexpected  " \o contentType \o ", expecting "
                                              \o jsonContentType \o ", got " \o cType,
                                          statusCode, rp.data)),
                            rp.calls)
              ELSE ParseResponse(rp.data, rp.calls))
Create(client, account, e) ==
    LET calls0 == <<Invocation("serialize", <<account>>)>>
        requestData == Marshal(account)
        calls == Append(calls0, Invocation("doHttpPost",
                     <<client.host \o "/" \o servicePath, jsonContentType, requestData>>))
        resp == e.transport.resp
        err == e.transport.err
    IN  IF e.serializeErr # Nil
        THEN Returned(Nil, Ptr(HTTPError(e.serializeErr, "Unable to serialize payload", 0, Nil)),
                      calls0)
        ELSE DeferClose(resp # Nil,
          IF err # Nil
          THEN Returned(Nil, Ptr(HTTPError(err, "Error placing a Post Http request", 0, Nil)),
                        calls)
          ELSE
          LET rp == readPayload(resp, calls)
              statusCode == Deref(resp).StatusCode
          IN  IF rp.panic THEN Panicked(rp.calls)
              ELSE IF rp.err # Nil THEN Returned(Nil, rp.err, rp.calls)
              ELSE IF statusCode # StatusCreated
              THEN Returned(Nil,
                            Ptr(unexpectedStatusCode(StatusCreated, statusCode, "Post", rp.data)),
                            rp.calls)
              ELSE ParseResponse(rp.data, rp.calls))

\* the error of createNewRequest is not looked at: the request is sent anyway
DeleteIgnoringBuildError(client, id, version, e) ==
    IF ~isValidUUID(id) THEN Returned(Nil, Ptr(InvalidIdError), <<>>)
    ELSE
    LET fullPath == client.host \o "/" \o servicePath \o "/" \o id
                        \o "?version=" \o ToString(version)
        calls == <<Invocation("createNewRequest", <<"DELETE", fullPath, Nil>>),
                   Invocation("doRequest", <<"DELETE", fullPath, Nil>>)>>
        resp == e.transport.resp
        err == e.transport.err
    IN  DeferClose(resp # Nil,
          IF err # Nil
          THEN Returned(Nil, Ptr(HTTPError(err, "Error placing Delete Http request", 0, Nil)),
                        calls)
          ELSE IF resp = Nil THEN Panicked(calls)
          ELSE IF Deref(resp).StatusCode # StatusNoContent
          THEN LET rp == readPayload(resp, calls)
               IN  IF rp.err # Nil THEN Returned(Nil, rp.err, rp.calls)
                   ELSE Returned(Nil,
                                 Ptr(unexpectedStatusCode(StatusNoContent, Deref(resp).StatusCode,
                                                          "Delete", rp.data)),
                                 rp.calls)
          ELSE Returned(Nil, Nil, calls))
Delete(client, id, version, e) ==
    IF ~isValidUUID(id) THEN Returned(Nil, Ptr(InvalidIdError), <<>>)
    ELSE
    LET fullPath == client.host \o "/" \o servicePath \o "/" \o id
                        \o "?version=" \o ToString(version)
        calls0 == <<Invocation("createNewRequest", <<"DELETE", fullPath, Nil>>)>>
        calls == Append(calls0, Invocation("doRequest", <<"DELETE", fullPath, Nil>>))
        resp == e.transport.resp
        err == e.transport.err
    IN  IF e.buildErr # Nil
        THEN Returned(Nil, Ptr(HTTPError(e.buildErr, "Error preparing Delete Http request", 0, Nil)),
                      calls0)
        ELSE DeferClose(resp # Nil,
          IF err # Nil
          THEN Returned(Nil, Ptr(HTTPError(err, "Error placing Delete Http request", 0, Nil)),
                        calls)
          ELSE IF resp = Nil THEN Panicked(calls)
          ELSE IF Deref(resp).StatusCode # StatusNoContent
          THEN LET rp == readPayload(resp, calls)
               IN  IF rp.err # Nil THEN Returned(Nil, rp.err, rp.calls)
                   ELSE Returned(Nil,
                                 Ptr(unexpectedStatusCode(StatusNoContent, Deref(resp).StatusCode,
                                                          "Delete", rp.data)),
                                 rp.calls)
          ELSE Returned(Nil, Nil, calls))

(***************************************************************************)
(* The inputs of a call and what the primitives can hand back.             *)
(***************************************************************************)
ValidId == "0d209d7f-d07a-4542-947f-5885fddddae2"
\* ids that are UUIDs: hyphenated, 32 hex digits, wrapped in braces
ValidIds == {ValidId, "0d209d7fd07a4542947f5885fddddae2", "{" \o ValidId \o "}"}
\* ids that are not: empty, too short, 36 characters with one that is not hex
InvalidIds == {"", "blah", "0d209d7f-d07a-4542-947f-5885fddddaeZ"}
Ids == ValidIds \cup InvalidIds
Versions == {0, 32}
SampleAttributes ==
    [ZeroStruct(AccountAttributesFields) EXCEPT !.Country = Ptr("GB"), !.BankID = "400300",
                                                !.Name = Ptr(<<"x", "y">>),
                                                !.Switched = Ptr(FALSE)]
SampleAccount ==
    [ZeroStruct(AccountDataFields) EXCEPT !.ID = ValidId, !.Type = "accounts",
                                          !.Version = Ptr(32),
                                          !.Attributes = Ptr(SampleAttributes)]
\* every optional field present, some pointing at a zero value
FullAttributes ==
    [AccountClassification |-> Ptr("Personal"), AccountMatchingOptOut |-> Ptr(FALSE),
     AccountNumber |-> "A1234567", AlternativeNames |-> Ptr(<<"x", "y", "z">>),
     BankID |-> "bid111", BankIDCode |-> "bidc222", BaseCurrency |-> "CAD",
     Bic |-> "bic333", Country |-> Ptr(""), CustomerId |-> "cid444",
     Iban |-> "iban_007", JointAccount |-> Ptr(TRUE), Name |-> Ptr(<<"a">>),
     SecondaryIdentification |-> "Driver's License", Status |-> Ptr("Pending"),
     Switched |-> Ptr(TRUE)]
FullAccount ==
    [Attributes |-> Ptr(FullAttributes), ID |-> "id666", OrganisationID |-> "orgId777",
     Type |-> "Bank Account", Version |-> Ptr(0)]
\* attributes present, with nothing in them
BareAccount == [ZeroAccount EXCEPT !.Attributes = Ptr(ZeroStruct(AccountAttributesFields))]
\* strings the encoder has to escape
QuotedAccount ==
    [ZeroAccount EXCEPT !.ID = "a\"b\\c", !.Type = "<R&D>",
                        !.Attributes = Ptr([ZeroStruct(AccountAttributesFields) EXCEPT
                                               !.Name = Ptr(<<"x\ty", "">>)])]
\* an id with a byte that is not valid UTF-8
InvalidTextAccount == [ZeroAccount EXCEPT !.ID = "id" \o InvalidByte]
Accounts == {Nil, Ptr(ZeroAccount), Ptr(SampleAccount), Ptr(FullAccount), Ptr(BareAccount),
             Ptr(QuotedAccount), Ptr(InvalidTextAccount)}

Errs == {"error " \o ToString(i) : i \in 1..NumErrs}
MaybeErr == {Nil} \cup {Ptr(err) : err \in Errs}
StatusCodes == {StatusOK, StatusCreated, StatusNoContent} \cup {399 + i : i \in 1..NumOtherStatus}
\* Content-Type values that start with "application/json", and values that do not
JsonContentTypes == {"application/json", "application/json; charset=utf-8"}
OtherContentTypes == {"", "text/html", "application/jso"}
ContentTypes == JsonContentTypes \cup OtherContentTypes
Bodies == {"", "blah", "null", "{}", "{\"data\":null}", "{\"data\":{}}", "{\"data\":5}",
           "{\"data\":{\"id\":\"" \o ValidId \o "\",\"version\":32,"
               \o "\"attributes\":{\"country\":\"GB\",\"name\":[\"x\",\"y\"]}}}"}
\* the envelope with an id, a version and two attributes, and what it decodes to
EnvelopeBody ==
    "{\"data\":{\"id\":\"0d209d7f-d07a-4542-947f-5885fddddae2\",\"version\":32,"
        \o "\"attributes\":{\"country\":\"GB\",\"name\":[\"x\",\"y\"]}}}"
EnvelopeAccount ==
    [ZeroAccount EXCEPT
        !.ID = "0d209d7f-d07a-4542-947f-5885fddddae2",
        !.Version = Ptr(32),
        !.Attributes = Ptr([ZeroStruct(AccountAttributesFields) EXCEPT
                               !.Country = Ptr("GB"), !.Name = Ptr(<<"x", "y">>)])]
\* an *http.Response: its status, its Content-Type header ("" when absent) and
\* its body, a stream that yields content or fails with readErr
Responses ==
    [StatusCode : StatusCodes, ContentType : ContentTypes,
     Body : [content : Bodies, readErr : MaybeErr]]
\* what doHttpGet, doHttpPost and doRequest can return: (resp, err), each nil or not
TransportResults == [resp : {Nil} \cup {Ptr(r) : r \in Responses}, err : MaybeErr]

(***************************************************************************)
(* validateUrl: url.ParseRequestURI(baseUrl), which takes an absolute URI  *)
(* or an absolute path.  The result is Nil or Ptr(the parse error).        *)
(***************************************************************************)
Letters == {Ch(UpperCase, i) : i \in 1..26} \cup {Ch(LowerCase, i) : i \in 1..26}
\* first and last position of the character c in s, 0 if it is not there
Index(s, c) ==
    IF \E i \in 1..Len(s) : Ch(s, i) = c
    THEN CHOOSE i \in 1..Len(s) : Ch(s, i) = c /\ \A k \in 1..(i - 1) : Ch(s, k) # c
    ELSE 0
LastIndex(s, c) ==
    IF \E i \in 1..Len(s) : Ch(s, i) = c
    THEN CHOOSE i \in 1..Len(s) : Ch(s, i) = c /\ \A k \in (i + 1)..Len(s) : Ch(s, k) # c
    ELSE 0
stringContainsCTLByte(s) == \E i \in 1..Len(s) : Ch(s, i) \in {"\t", "\n", "\r", "\f"}

\* getScheme: the letters, digits, "+", "-" and "." before the first ":"
RECURSIVE getSchemeFrom(_, _)
getSchemeFrom(rawURL, i) ==
    IF i > Len(rawURL) THEN [scheme |-> "", rest |-> rawURL, err |-> Nil]
    ELSE IF Ch(rawURL, i) \in Letters THEN getSchemeFrom(rawURL, i + 1)
    ELSE IF Ch(rawURL, i) \in Digits \cup {"+", "-", "."}
    THEN IF i = 1 THEN [scheme |-> "", rest |-> rawURL, err |-> Nil]
         ELSE getSchemeFrom(rawURL, i + 1)
    ELSE IF Ch(rawURL, i) = ":"
    THEN IF i = 1 THEN [scheme |-> "", rest |-> "", err |-> Ptr("missing protocol scheme")]
         ELSE [scheme |-> SubSeq(rawURL, 1, i - 1),
               rest |-> SubSeq(rawURL, i + 1, Len(rawURL)), err |-> Nil]
    ELSE [scheme |-> "", rest |-> rawURL, err |-> Nil]
getScheme(rawURL) == getSchemeFrom(rawURL, 1)

\* every "%" is followed by two hex digits
ValidEscapes(s) ==
    \A i \in 1..Len(s) :
        Ch(s, i) = "%" => Ch(s, i + 1) \in HexDigits /\ Ch(s, i + 2) \in HexDigits
\* the characters a host may hold unescaped
HostChars ==
    Letters \cup Digits \cup {"-", "_", ".", "~", "!", "$", "&", "'", "(", ")", "*", "+",
                              ",", ";", "=", ":", "[", "]", "<", ">", "\""}
\* in a host, an escape below %80 other than %25 is an error
ValidHostEscapes(s) ==
    /\ ValidEscapes(s)
    /\ \A i \in 1..Len(s) :
          Ch(s, i) = "%" => HexVal(Ch(s, i + 1)) >= 8 \/ Sub(s, i, i + 2) = "%25"
validOptionalPort(port) ==
    \/ port = ""
    \/ Ch(port, 1) = ":" /\ \A i \in 2..Len(port) : Ch(port, i) \in Digits
parseHost(host) ==
    LET close == LastIndex(host, "]")
        colon == LastIndex(host, ":")
    IN  IF Ch(host, 1) = "[" /\ close = 0 THEN Ptr("missing ']' in host")
        ELSE IF Ch(host, 1) = "[" /\ ~validOptionalPort(Sub(host, close + 1, Len(host)))
        THEN Ptr("invalid port after host")
        ELSE IF Ch(host, 1) # "[" /\ colon # 0 /\ ~validOptionalPort(Sub(host, colon, Len(host)))
        THEN Ptr("invalid port after host")
        ELSE IF ~ValidHostEscapes(host) THEN Ptr("invalid URL escape")
        ELSE IF \E i \in 1..Len(host) : Ch(host, i) \notin HostChars \cup {"%"}
        THEN Ptr("invalid character in host name")
        ELSE Nil
UserinfoChars ==
    Letters \cup Digits \cup {"-", ".", "_", ":", "~", "!", "$", "&", "'", "(", ")", "*", "+",
                              ",", ";", "=", "%", "@"}
validUserinfo(s) == \A i \in 1..Len(s) : Ch(s, i) \in UserinfoChars
\* [user[:password]@]host[:port]
parseAuthority(authority) ==
    LET at == LastIndex(authority, "@")
        hostErr == parseHost(Sub(authority, at + 1, Len(authority)))
        userinfo == SubSeq(authority, 1, at - 1)
    IN  IF hostErr # Nil THEN hostErr
        ELSE IF at = 0 THEN Nil
        ELSE IF ~validUserinfo(userinfo) THEN Ptr("net/url: invalid userinfo")
        ELSE IF ~ValidEscapes(userinfo) THEN Ptr("invalid URL escape")
        ELSE Nil
\* parse(rawURL, viaRequest = true), from the scheme on
parseAfterScheme(scheme, rest0) ==
    LET q == Index(rest0, "?")
        rest == IF q = 0 THEN rest0 ELSE SubSeq(rest0, 1, q - 1)
        slash == Index(Sub(rest, 3, Len(rest)), "/")
        authority == IF slash = 0 THEN Sub(rest, 3, Len(rest)) ELSE SubSeq(rest, 3, slash + 1)
        path == IF slash = 0 THEN "" ELSE Sub(rest, slash + 2, Len(rest))
    IN  IF Ch(rest, 1) # "/"
        THEN IF scheme # "" THEN Nil ELSE Ptr("invalid URI for request")
        ELSE IF scheme # "" /\ Sub(rest, 1, 2) = "//"
        THEN IF parseAuthority(authority) # Nil THEN parseAuthority(authority)
             ELSE IF ~ValidEscapes(path) THEN Ptr("invalid URL escape")
             ELSE Nil
        ELSE IF ~ValidEscapes(rest) THEN Ptr("invalid URL escape")
        ELSE Nil
SchemeOrError(g) == IF g.err # Nil THEN g.err ELSE parseAfterScheme(g.scheme, g.rest)
ParseRequestURI(rawURL) ==
    IF stringContainsCTLByte(rawURL) THEN Ptr("net/url: invalid control character in URL")
    ELSE IF rawURL = "" THEN Ptr("empty url")
    ELSE IF rawURL = "*" THEN Nil
    ELSE SchemeOrError(getScheme(rawURL))
validateUrl(baseUrl) ==
    IF ParseRequestURI(baseUrl) # Nil THEN Ptr("invalid URL provided") ELSE Nil

(***************************************************************************)
(* Construction.  A client is the struct httpAccountsClientImpl: its host, *)
(* its *http.Client and six primitives, each Nil or Ptr(the name of the    *)
(* function it holds).                                                     *)
(***************************************************************************)
Primitives ==
    {"readInput", "doHttpGet", "doHttpPost", "createNewRequest", "doRequest", "serialize"}
DefaultPrimitive(f) ==
    CASE f = "readInput" -> "io.ReadAll"
      [] f = "doHttpGet" -> "client.Get"
      [] f = "doHttpPost" -> "client.Post"
      [] f = "createNewRequest" -> "http.NewRequest"
      [] f = "doRequest" -> "client.Do"
      [] f = "serialize" -> "json.Marshal"
\* every primitive gets its default, set or not
initOverwriting(impl) ==
    [f \in DOMAIN impl |-> IF f \in Primitives THEN Ptr(DefaultPrimitive(f)) ELSE impl[f]]
\* init(): every primitive that is nil gets its default
init(impl) ==
    [f \in DOMAIN impl |->
        IF f \in Primitives /\ impl[f] = Nil THEN Ptr(DefaultPrimitive(f)) ELSE impl[f]]
\* the struct literal of the factories: the host and the *http.Client set
httpAccountsClientImpl(host) ==
    [host |-> host, client |-> Ptr("http.Client{}"), readInput |-> Nil, doHttpGet |-> Nil,
     doHttpPost |-> Nil, createNewRequest |-> Nil, doRequest |-> Nil, serialize |-> Nil]
\* what every factory does once it has filled in the struct literal
ValidatedClient(baseUrl, impl) ==
    IF validateUrl(baseUrl) # Nil THEN [client |-> Nil, err |-> validateUrl(baseUrl)]
    ELSE [client |-> Ptr(init(impl)), err |-> Nil]
MakeClient(baseUrl) == ValidatedClient(baseUrl, httpAccountsClientImpl(baseUrl))
MakeTestClientWithInputReader(baseUrl, primitive) ==
    ValidatedClient(baseUrl, [httpAccountsClientImpl(baseUrl) EXCEPT !.readInput = primitive])
MakeTestClientWithHttpGetter(baseUrl, primitive) ==
    ValidatedClient(baseUrl, [httpAccountsClientImpl(baseUrl) EXCEPT !.doHttpGet = primitive])
MakeTestClientWithHttpPoster(baseUrl, primitive) ==
    ValidatedClient(baseUrl, [httpAccountsClientImpl(baseUrl) EXCEPT !.doHttpPost = primitive])
MakeTestClientWithNewRequestCreator(baseUrl, primitive) ==
    ValidatedClient(baseUrl,
                    [httpAccountsClientImpl(baseUrl) EXCEPT !.createNewRequest = primitive])
MakeTestClientWithRequestInvoker(baseUrl, primitive) ==
    ValidatedClient(baseUrl, [httpAccountsClientImpl(baseUrl) EXCEPT !.doRequest = primitive])
MakeTestClientWithSerializer(baseUrl, primitive) ==
    ValidatedClient(baseUrl, [httpAccountsClientImpl(baseUrl) EXCEPT !.serialize = primitive])

\* base addresses: absolute URLs with a scheme and a host ...
AbsoluteUrls ==
    {"http://localhost:8080", "https://api.example.com/base", "http://127.0.0.1",
     "http://[::1]:8080", "http://user:pw@host:80/x?y=1", "HTTP://EXAMPLE.COM", "ftp://x"}
\* ... strings that are no URL, URLs that are malformed ...
MalformedUrls ==
    {"boom", "", ":8080", "example.com/api", "http://host:port", "http://ho st/",
     "http://%zz/", "http://x\n", "http://[::1", "http://a/%zz"}
\* ... and references that have no scheme: a path, an asterisk, a network path
RelativeReferences == {"/v1", "*", "//example.com/api"}
BaseUrls == AbsoluteUrls \cup MalformedUrls \cup RelativeReferences
\* the function handed to a MakeTestClientWith* factory: nil or not
InjectedPrimitives == {Nil, Ptr("injected")}

\* a server that answers 201 with the body of the request it was sent
EchoResults(account) ==
    {[resp |-> Ptr([StatusCode |-> StatusCreated, ContentType |-> "application/json",
                    Body |-> [content |-> Marshal(account), readErr |-> Nil]]),
      err |-> Nil]}

(***************************************************************************)
(* State: the client, and the call in progress with its inputs, what the   *)
(* primitives handed back and its outcome.                                 *)
(***************************************************************************)
VARIABLES hac, op, args, env, out
vars == <<hac, op, args, env, out>>

Init ==
    /\ hac = Deref(MakeClient("http://localhost:8080").client)
    /\ op = "idle"
    /\ args = Nil
    /\ env = Nil
    /\ out = Nil

CallFetch ==
    /\ op = "idle"
    /\ \E id \in Ids, t \in TransportResults :
          /\ op' = "Fetch"
          /\ args' = [id |-> id]
          /\ env' = [transport |-> t]
          /\ out' = Fetch(hac, id, env')
    /\ UNCHANGED hac

CallCreate ==
    /\ op = "idle"
    /\ \E account \in Accounts, serr \in MaybeErr :
       \E t \in TransportResults \cup EchoResults(account) :
          /\ op' = "Create"
          /\ args' = [account |-> account]
          /\ env' = [serializeErr |-> serr, transport |-> t]
          /\ out' = Create(hac, account, env')
    /\ UNCHANGED hac

CallDelete ==
    /\ op = "idle"
    /\ \E id \in Ids, version \in Versions, berr \in MaybeErr, t \in TransportResults :
          /\ op' = "Delete"
          /\ args' = [id |-> id, version |-> version]
          /\ env' = [buildErr |-> berr, transport |-> t]
          /\ out' = Delete(hac, id, version, env')
    /\ UNCHANGED hac

\* the call is over: the caller has its result (or the panic has unwound)
Return ==
    /\ op # "idle"
    /\ op' = "idle"
    /\ args' = Nil
    /\ env' = Nil
    /\ out' = Nil
    /\ UNCHANGED hac

Next == CallFetch \/ CallCreate \/ CallDelete \/ Return
Spec == Init /\ [][Next]_vars

(***************************************************************************)
(* The same calls on clients made for different base addresses.            *)
(***************************************************************************)
TargetBases == {"http://localhost:8080", "https://api.example.com/base"}
InitTargets ==
    /\ hac \in {Deref(MakeClient(baseUrl).client) : baseUrl \in TargetBases}
    /\ op = "idle"
    /\ args = Nil
    /\ env = Nil
    /\ out = Nil
SpecTargets == InitTargets /\ [][Next]_vars

(***************************************************************************)
(* The factories: before any client is made the caller holds none (hac is  *)
(* Nil); a factory call leaves in hac the client it returned, Nil when it  *)
(* returned an error.                                                      *)
(***************************************************************************)
InitFactory ==
    /\ hac = Nil
    /\ op = "idle"
    /\ args = Nil
    /\ env = Nil
    /\ out = Nil

\* the client a factory call leaves the caller with
Held(result) == IF result.client = Nil THEN Nil ELSE Deref(result.client)

CallMakeClient ==
    /\ op = "idle"
    /\ \E baseUrl \in BaseUrls :
          /\ op' = "MakeClient"
          /\ args' = [baseUrl |-> baseUrl, primitive |-> Nil]
          /\ out' = MakeClient(baseUrl)
    /\ env' = Nil
    /\ hac' = Held(out')

CallMakeTestClientWithInputReader ==
    /\ op = "idle"
    /\ \E baseUrl \in BaseUrls, primitive \in InjectedPrimitives :
          /\ op' = "MakeTestClientWithInputReader"
          /\ args' = [baseUrl |-> baseUrl, primitive |-> primitive]
          /\ out' = MakeTestClientWithInputReader(baseUrl, primitive)
    /\ env' = Nil
    /\ hac' = Held(out')

CallMakeTestClientWithHttpGetter ==
    /\ op = "idle"
    /\ \E baseUrl \in BaseUrls, primitive \in InjectedPrimitives :
          /\ op' = "MakeTestClientWithHttpGetter"
          /\ args' = [baseUrl |-> baseUrl, primitive |-> primitive]
          /\ out' = MakeTestClientWithHttpGetter(baseUrl, primitive)
    /\ env' = Nil
    /\ hac' = Held(out')

CallMakeTestClientWithHttpPoster ==
    /\ op = "idle"
    /\ \E baseUrl \in BaseUrls, primitive \in InjectedPrimitives :
          /\ op' = "MakeTestClientWithHttpPoster"
          /\ args' = [baseUrl |-> baseUrl, primitive |-> primitive]
          /\ out' = MakeTestClientWithHttpPoster(baseUrl, primitive)
    /\ env' = Nil
    /\ hac' = Held(out')

CallMakeTestClientWithNewRequestCreator ==
    /\ op = "idle"
    /\ \E baseUrl \in BaseUrls, primitive \in InjectedPrimitives :
          /\ op' = "MakeTestClientWithNewRequestCreator"
          /\ args' = [baseUrl |-> baseUrl, primitive |-> primitive]
          /\ out' = MakeTestClientWithNewRequestCreator(baseUrl, primitive)
    /\ env' = Nil
    /\ hac' = Held(out')

CallMakeTestClientWithRequestInvoker ==
    /\ op = "idle"
    /\ \E baseUrl \in BaseUrls, primitive \in InjectedPrimitives :
          /\ op' = "MakeTestClientWithRequestInvoker"
          /\ args' = [baseUrl |-> baseUrl, primitive |-> primitive]
          /\ out' = MakeTestClientWithRequestInvoker(baseUrl, primitive)
    /\ env' = Nil
    /\ hac' = Held(out')

CallMakeTestClientWithSerializer ==
    /\ op = "idle"
    /\ \E baseUrl \in BaseUrls, primitive \in InjectedPrimitives :
          /\ op' = "MakeTestClientWithSerializer"
          /\ args' = [baseUrl |-> baseUrl, primitive |-> primitive]
          /\ out' = MakeTestClientWithSerializer(baseUrl, primitive)
    /\ env' = Nil
    /\ hac' = Held(out')

NextFactory ==
    \/ CallMakeClient
    \/ CallMakeTestClientWithInputReader
    \/ CallMakeTestClientWithHttpGetter
    \/ CallMakeTestClientWithHttpPoster
    \/ CallMakeTestClientWithNewRequestCreator
    \/ CallMakeTestClientWithRequestInvoker
    \/ CallMakeTestClientWithSerializer
    \/ Return
SpecFactory == InitFactory /\ [][NextFactory]_vars

(***************************************************************************)
(* Concurrent callers of one client.  Here op, args, env and out hold one  *)
(* entry per caller.  A call takes two steps: Begin fixes its inputs and   *)
(* what the primitives will hand back, Finish runs it against the client   *)
(* as it is at that moment; steps of other callers come in between.        *)
(* env[t].overlapped records that another call was in progress when the    *)
(* call of t began; env[t].errorText is there once the caller has called   *)
(* Error() on the HTTPError it got, and holds what Error() returned.       *)
(***************************************************************************)
NumCallers == 2
Callers == 1..NumCallers
\* the operation keeps the path it appended to the host in the client
ClientAfterAppendingPath(client, operation) ==
    [client EXCEPT !.host = @ \o "/" \o servicePath]
\* the receiver after an operation has run: no method assigns to a field of hac
ClientAfter(client, operation) == client
\* the error of a call that overlapped another comes back without its cause, as
\* if the calls in progress shared the place where it is kept
ResultSharingCause(client, operation, a, e) ==
    LET r == CASE operation = "Fetch" -> Fetch(client, a.id, e)
               [] operation = "Create" -> Create(client, a.account, e)
               [] operation = "Delete" -> Delete(client, a.id, a.version, e)
    IN  IF e.overlapped /\ r.err # Nil
        THEN [r EXCEPT !.err = Ptr([Deref(r.err) EXCEPT !.Cause = Nil])]
        ELSE r
\* what one call does, by the name of its operation
Result(client, operation, a, e) ==
    CASE operation = "Fetch" -> Fetch(client, a.id, e)
      [] operation = "Create" -> Create(client, a.account, e)
      [] operation = "Delete" -> Delete(client, a.id, a.version, e)
ConcurrentResults ==
    {[resp |-> Nil, err |-> Ptr("error 1")],
     [resp |-> Ptr([StatusCode |-> StatusOK, ContentType |-> "application/json",
                    Body |-> [content |-> EnvelopeBody, readErr |-> Nil]]),
      err |-> Nil]}
NoCall == [ret |-> "none"]
Running == [ret |-> "running"]
Overlapped(t) == \E u \in Callers \ {t} : out[u] = Running

InitConcurrent ==
    /\ hac = Deref(MakeClient("http://localhost:8080").client)
    /\ op = [t \in Callers |-> "idle"]
    /\ args = [t \in Callers |-> Nil]
    /\ env = [t \in Callers |-> Nil]
    /\ out = [t \in Callers |-> NoCall]

BeginFetch ==
    \E t \in Callers, id \in {ValidId, "blah"}, r \in ConcurrentResults :
        /\ op[t] = "idle"
        /\ op' = [op EXCEPT ![t] = "Fetch"]
        /\ args' = [args EXCEPT ![t] = [id |-> id]]
        /\ env' = [env EXCEPT ![t] = [transport |-> r, overlapped |-> Overlapped(t)]]
        /\ out' = [out EXCEPT ![t] = Running]
        /\ UNCHANGED hac

BeginCreate ==
    \E t \in Callers, serr \in {Nil}, r \in ConcurrentResults :
        /\ op[t] = "idle"
        /\ op' = [op EXCEPT ![t] = "Create"]
        /\ args' = [args EXCEPT ![t] = [account |-> Ptr(SampleAccount)]]
        /\ env' = [env EXCEPT ![t] = [serializeErr |-> serr, transport |-> r,
                                      overlapped |-> Overlapped(t)]]
        /\ out' = [out EXCEPT ![t] = Running]
        /\ UNCHANGED hac

BeginDelete ==
    \E t \in Callers, id \in {ValidId}, r \in ConcurrentResults :
        /\ op[t] = "idle"
        /\ op' = [op EXCEPT ![t] = "Delete"]
        /\ args' = [args EXCEPT ![t] = [id |-> id, version |-> 32]]
        /\ env' = [env EXCEPT ![t] = [buildErr |-> Nil, transport |-> r,
                                      overlapped |-> Overlapped(t)]]
        /\ out' = [out EXCEPT ![t] = Running]
        /\ UNCHANGED hac

Finish ==
    \E t \in Callers :
        /\ out[t] = Running
        /\ out' = [out EXCEPT ![t] = Result(hac, op[t], args[t], env[t])]
        /\ hac' = ClientAfter(hac, op[t])
        /\ UNCHANGED <<op, args, env>>

\* the caller has its result and is free to call again
ReturnTo ==
    \E t \in Callers :
        /\ out[t] \notin {NoCall, Running}
        /\ op' = [op EXCEPT ![t] = "idle"]
        /\ args' = [args EXCEPT ![t] = Nil]
        /\ env' = [env EXCEPT ![t] = Nil]
        /\ out' = [out EXCEPT ![t] = NoCall]
        /\ UNCHANGED hac

\* the caller of a failed call asks the HTTPError for its text
CallError ==
    \E t \in Callers :
        /\ out[t] \notin {NoCall, Running}
        /\ out[t].err # Nil
        /\ "errorText" \notin DOMAIN env[t]
        /\ env' = [env EXCEPT ![t] =
                      [f \in DOMAIN @ \cup {"errorText"} |->
                          IF f = "errorText" THEN ErrorText(Deref(out[t].err)) ELSE @[f]]]
        /\ UNCHANGED <<hac, op, args, out>>

NextConcurrent ==
    BeginFetch \/ BeginCreate \/ BeginDelete \/ Finish \/ CallError \/ ReturnTo
SpecConcurrent == InitConcurrent /\ [][NextConcurrent]_vars

TypeOK ==
    /\ op \in {"idle", "Fetch", "Create", "Delete"}
    /\ op # "idle" => out.ret \in {"returned", "panicked"}

(***************************************************************************)
(* Vocabulary of the properties.                                           *)
(***************************************************************************)
Invoked(fn) == \E i \in DOMAIN out.calls : out.calls[i].fn = fn
TransportFn == CASE op = "Fetch" -> "doHttpGet" [] op = "Create" -> "doHttpPost"
                 [] op = "Delete" -> "doRequest"
\* the transport answered with a response and no error
ResponseReceived == env.transport.resp # Nil /\ env.transport.err = Nil
Resp == Deref(env.transport.resp)
\* the call got as far as its transport primitive
FetchPlaced == op = "Fetch" /\ args.id \in ValidIds
CreatePlaced == op = "Create" /\ env.serializeErr = Nil
DeletePlaced == op = "Delete" /\ args.id \in ValidIds /\ env.buildErr = Nil
\* Fetch / Create got a response whose body was read
FetchRead == FetchPlaced /\ ResponseReceived /\ Resp.Body.readErr = Nil
CreateRead == CreatePlaced /\ ResponseReceived /\ Resp.Body.readErr = Nil
\* ... and that passed the status check (and, for Fetch, the content-type check)
FetchParsed == FetchRead /\ Resp.StatusCode = 200 /\ Resp.ContentType \in JsonContentTypes
CreateParsed == CreateRead /\ Resp.StatusCode = 201
ReturnedError(e) == out.ret = "returned" /\ out.data = Nil /\ out.err = Ptr(e)

(***************************************************************************)
(* C1: Fetch and Create always return, and return exactly one of a non-nil *)
(* AccountData and a non-nil HTTPError, whatever response or error the     *)
(* transport hands back and whatever the body reader, the status code,    *)
(* the Content-Type and the body (not JSON, null, {}, {"data":null},       *)
(* {"data":{}}, a full envelope) are.                                      *)
(* Violated: a body that is the JSON literal null passes Unmarshal with a  *)
(* nil envelope, and accountDataOrError dereferences it.                   *)
(***************************************************************************)
C1_ExactlyOneOfDataAndError ==
    (op \in {"Fetch", "Create"} /\ (env.transport.resp # Nil \/ env.transport.err # Nil)) =>
        /\ out.ret = "returned"
        /\ (out.data = Nil) # (out.err = Nil)

(***************************************************************************)
(* C2: in Fetch, Create and Delete, whenever the transport primitive hands *)
(* back a non-nil response, its body has been closed when the operation    *)
(* is over, on every exit path.                                            *)
(* Violated: Fetch returns on a transport error before it registers the    *)
(* deferred Close, so a response handed back with an error stays open.     *)
(***************************************************************************)
C2_BodyAlwaysClosed ==
    (op # "idle" /\ Invoked(TransportFn) /\ env.transport.resp # Nil) => out.closed

(***************************************************************************)
(* C3: for every id that is not a UUID, Fetch and Delete return the        *)
(* HTTPError "id must be a valid uuid" with nil Cause, StatusCode 0 and    *)
(* nil payload (and nil AccountData), and invoke no primitive at all.      *)
(***************************************************************************)
C3_InvalidIdFailsWithoutCall ==
    (op \in {"Fetch", "Delete"} /\ args.id \in InvalidIds) =>
        /\ ReturnedError([Cause |-> Nil, Message |-> "id must be a valid uuid",
                          StatusCode |-> 0, ResponsePayload |-> Nil])
        /\ out.calls = <<>>
\* Delete of a 36-character id with a non-hex character, against a transport
\* that would have answered: rejected without a call
C3_Witness ==
    /\ op = "Delete"
    /\ args.id = "0d209d7f-d07a-4542-947f-5885fddddaeZ"
    /\ env.buildErr = Nil /\ ResponseReceived
    /\ out.err # Nil /\ out.calls = <<>>

(***************************************************************************)
(* C4: in Fetch (200, JSON content type) and Create (201), a body that is  *)
(* JSON without a data member ({} or {"data":null}) yields nil AccountData *)
(* and the HTTPError "Got an empty object after deserialization, ..."      *)
(* with nil Cause, StatusCode 0 and the raw body as payload.               *)
(***************************************************************************)
C4_NoDataMemberIsEmptyPayload ==
    ((FetchParsed \/ CreateParsed) /\ Resp.Body.content \in {"{}", "{\"data\":null}"}) =>
        ReturnedError([Cause |-> Nil,
                       Message |-> "Got an empty object after deserialization, json payload was an empty object?",
                       StatusCode |-> 0,
                       ResponsePayload |-> Ptr(Resp.Body.content)])
C4_Witness ==
    /\ CreateParsed
    /\ Resp.Body.content = "{}"
    /\ out.err # Nil /\ Deref(out.err).ResponsePayload = Ptr("{}")

(***************************************************************************)
(* C5, as stated: in Fetch and Create, a body whose data member is present *)
(* but an empty object ({"data":{}}) is reported as the EmptyPayload error *)
(* and no AccountData is returned.                                         *)
(* Violated: accountDataOrError only tests Data for nil, and {} decodes to *)
(* a non-nil AccountData.                                                  *)
(***************************************************************************)
C5_EmptyDataObjectIsEmptyPayload ==
    ((FetchParsed \/ CreateParsed) /\ Resp.Body.content = "{\"data\":{}}") =>
        /\ out.data = Nil
        /\ out.err # Nil
        /\ Deref(out.err).Cause = Nil
        /\ Deref(out.err).ResponsePayload = Ptr(Resp.Body.content)
(***************************************************************************)
(* C5, amended: in Fetch and Create, a body whose data member is present   *)
(* but an empty object ({"data":{}}) yields a nil error and a non-nil      *)
(* AccountData all of whose fields are zero; the EmptyPayload error is     *)
(* reported only when the data member is absent or null.                   *)
(***************************************************************************)
C5_EmptyDataObjectIsReturned ==
    /\ ((FetchParsed \/ CreateParsed) /\ Resp.Body.content = "{\"data\":{}}") =>
          /\ out.ret = "returned"
          /\ out.err = Nil
          /\ out.data = Ptr(ZeroAccount)
    /\ ((FetchParsed \/ CreateParsed) /\ out.ret = "returned" /\ out.err # Nil
            /\ Deref(out.err).Message = EmptyObjectMessage) =>
          Resp.Body.content \in {"{}", "{\"data\":null}"}
C5_Witness ==
    /\ FetchParsed
    /\ Resp.Body.content = "{\"data\":{}}"
    /\ out.err = Nil /\ out.data # Nil

(***************************************************************************)
(* C6: in Fetch and Create, once a response has come back without a        *)
(* transport error, a failure of the body reader yields the HTTPError      *)
(* "Error processing response body" with Cause = the reader's error,       *)
(* StatusCode 0 and nil payload, for every status code and Content-Type.   *)
(***************************************************************************)
C6_BodyReadFailureComesFirst ==
    ((FetchPlaced \/ CreatePlaced) /\ ResponseReceived /\ Resp.Body.readErr # Nil) =>
        ReturnedError([Cause |-> Resp.Body.readErr,
                       Message |-> "Error processing response body",
                       StatusCode |-> 0,
                       ResponsePayload |-> Nil])
\* Fetch of a 400 text/html response whose body cannot be read
C6_Witness ==
    /\ FetchPlaced /\ ResponseReceived
    /\ Resp.StatusCode = 400 /\ Resp.ContentType = "text/html"
    /\ Resp.Body.readErr = Ptr("error 2")
    /\ out.err # Nil /\ Deref(out.err).Cause = Ptr("error 2")

(***************************************************************************)
(* C7: in Fetch, a response whose body was read and whose status N is not  *)
(* 200 yields nil AccountData and the HTTPError with StatusCode N, Message *)
(* "Unexpected response code returned for Get operation, expected 200,     *)
(* got N", nil Cause and the bytes read as a non-nil payload, whatever the *)
(* Content-Type and the body are, and nothing is parsed.  Create does the  *)
(* same with 201 and "Post".                                               *)
(***************************************************************************)
C7_UnexpectedStatus ==
    /\ (FetchRead /\ Resp.StatusCode # 200) =>
          /\ ReturnedError([Cause |-> Nil,
                            Message |-> "Unexpected response code returned for Get operation, expected 200, got "
                                            \o ToString(Resp.StatusCode),
                            StatusCode |-> Resp.StatusCode,
                            ResponsePayload |-> Ptr(Resp.Body.content)])
          /\ ~Invoked("json.Unmarshal")
    /\ (CreateRead /\ Resp.StatusCode # 201) =>
          /\ ReturnedError([Cause |-> Nil,
                            Message |-> "Unexpected response code returned for Post operation, expected 201, got "
                                            \o ToString(Resp.StatusCode),
                            StatusCode |-> Resp.StatusCode,
                            ResponsePayload |-> Ptr(Resp.Body.content)])
          /\ ~Invoked("json.Unmarshal")
\* Fetch of a 400 with an empty body and a JSON content type: payload is empty, not nil
C7_Witness ==
    /\ FetchRead
    /\ Resp.StatusCode = 400 /\ Resp.Body.content = "" /\ Resp.ContentType = "application/json"
    /\ out.err # Nil
    /\ Deref(out.err).Message = "Unexpected response code returned for Get operation, expected 200, got 400"
    /\ Deref(out.err).ResponsePayload = Ptr("")

(***************************************************************************)
(* C8: in Fetch with status 200, a Content-Type that does not start with   *)
(* "application/json" (an absent header included) yields nil AccountData   *)
(* and an HTTPError with StatusCode 200, nil Cause and the body read as    *)
(* payload, and the body is never parsed; a Content-Type that starts with  *)
(* "application/json", with or without parameters, goes on to parsing.     *)
(***************************************************************************)
C8_ContentTypeCheck ==
    /\ (FetchRead /\ Resp.StatusCode = 200 /\ Resp.ContentType \in OtherContentTypes) =>
          /\ ReturnedError([Cause |-> Nil,
                            Message |-> "Unexpected  Content-Type, expecting application/json, got "
                                            \o Resp.ContentType,
                            StatusCode |-> 200,
                            ResponsePayload |-> Ptr(Resp.Body.content)])
          /\ ~Invoked("json.Unmarshal")
    /\ (FetchRead /\ Resp.StatusCode = 200 /\ Resp.ContentType \in JsonContentTypes) =>
          Invoked("json.Unmarshal")
\* a 200 without Content-Type header carrying a full envelope: rejected unparsed
C8_Witness ==
    /\ FetchRead
    /\ Resp.StatusCode = 200 /\ Resp.ContentType = ""
    /\ Len(Resp.Body.content) > 20
    /\ out.err # Nil /\ Deref(out.err).StatusCode = 200
    /\ ~Invoked("json.Unmarshal")

(***************************************************************************)
(* C9: Delete returns a nil error exactly when the id is a UUID, the       *)
(* request was built, the transport returned no error and the status is    *)
(* 204; on that path the body reader is never invoked, so the result is    *)
(* nil even when the reader would fail.                                    *)
(***************************************************************************)
C9_DeleteNilErrorIff204 ==
    op = "Delete" =>
        LET success == /\ args.id \in ValidIds
                       /\ env.buildErr = Nil
                       /\ env.transport.err = Nil
                       /\ env.transport.resp # Nil
                       /\ Resp.StatusCode = 204
        IN  /\ (out.ret = "returned" /\ out.err = Nil) <=> success
            /\ success => ~Invoked("readInput")
\* a 204 whose body cannot be read
C9_Witness ==
    /\ DeletePlaced /\ ResponseReceived
    /\ Resp.StatusCode = 204 /\ Resp.Body.readErr # Nil
    /\ out.ret = "returned" /\ out.err = Nil

(***************************************************************************)
(* C10: in Delete, for a response with status N other than 204 the body is *)
(* read first: a failed read yields "Error processing response body" with  *)
(* Cause = the reader's error, StatusCode 0 and nil payload; otherwise the *)
(* error has StatusCode N, Message "Unexpected response code returned for  *)
(* Delete operation, expected 204, got N", nil Cause and the bytes read as *)
(* a non-nil payload, attached without being parsed.                       *)
(***************************************************************************)
C10_DeleteUnexpectedStatus ==
    (DeletePlaced /\ ResponseReceived /\ Resp.StatusCode # 204) =>
        /\ Invoked("readInput")
        /\ ~Invoked("json.Unmarshal")
        /\ IF Resp.Body.readErr # Nil
           THEN ReturnedError([Cause |-> Resp.Body.readErr,
                               Message |-> "Error processing response body",
                               StatusCode |-> 0,
                               ResponsePayload |-> Nil])
           ELSE ReturnedError([Cause |-> Nil,
                               Message |-> "Unexpected response code returned for Delete operation, expected 204, got "
                                               \o ToString(Resp.StatusCode),
                               StatusCode |-> Resp.StatusCode,
                               ResponsePayload |-> Ptr(Resp.Body.content)])
\* a 400 whose body is not JSON: attached verbatim
C10_Witness ==
    /\ DeletePlaced /\ ResponseReceived
    /\ Resp.StatusCode = 400 /\ Resp.Body.readErr = Nil /\ Resp.Body.content = "blah"
    /\ out.err # Nil /\ Deref(out.err).ResponsePayload = Ptr("blah")

(***************************************************************************)
(* C11: when the transport primitive returns an error, the call returns an *)
(* HTTPError with Cause = that error, StatusCode 0, nil payload and the    *)
(* message of the operation ("Error placing a Get Http request", "Error    *)
(* placing a Post Http request", "Error placing Delete Http request"),     *)
(* with nil AccountData for Fetch and Create, and neither the body reader  *)
(* nor the JSON parser is invoked, whether or not a response came with the *)
(* error.                                                                  *)
(***************************************************************************)
C11_TransportError ==
    LET placing == CASE op = "Fetch" -> "Error placing a Get Http request"
                     [] op = "Create" -> "Error placing a Post Http request"
                     [] op = "Delete" -> "Error placing Delete Http request"
    IN  ((FetchPlaced \/ CreatePlaced \/ DeletePlaced) /\ env.transport.err # Nil) =>
            /\ ReturnedError([Cause |-> env.transport.err,
                              Message |-> placing,
                              StatusCode |-> 0,
                              ResponsePayload |-> Nil])
            /\ ~Invoked("readInput")
            /\ ~Invoked("json.Unmarshal")
\* doHttpPost hands back a readable 201 response together with an error
C11_Witness ==
    /\ CreatePlaced
    /\ env.transport.err = Ptr("error 1") /\ env.transport.resp # Nil
    /\ Resp.StatusCode = 201 /\ Resp.Body.readErr = Nil
    /\ out.err # Nil /\ Deref(out.err).Cause = Ptr("error 1")
    /\ Invoked("doHttpPost")

(***************************************************************************)
(* C12: in Fetch (status 200, JSON Content-Type) and Create (status 201),  *)
(* a body that cannot be parsed as an Envelope, the zero-length body       *)
(* included, yields nil AccountData and an HTTPError with Message "Error   *)
(* deserializing json", Cause = the parser's error, ResponsePayload = the  *)
(* raw body and StatusCode 0.                                              *)
(***************************************************************************)
C12_UndecodableBody ==
    LET body == Resp.Body.content
    IN  ((FetchParsed \/ CreateParsed) /\ body \in {"", "blah", "{\"data\":5}"}) =>
            /\ out.ret = "returned" /\ out.data = Nil /\ out.err # Nil
            /\ Invoked("json.Unmarshal")
            /\ Deref(out.err).Message = "Error deserializing json"
            /\ Deref(out.err).StatusCode = 0
            /\ Deref(out.err).ResponsePayload = Ptr(body)
            /\ Deref(out.err).Cause # Nil
            /\ body = "" => Deref(out.err).Cause = Ptr("unexpected end of JSON input")
            /\ body = "blah" =>
                   Deref(out.err).Cause =
                       Ptr("invalid character 'b' looking for beginning of value")
\* a 201 with a zero-length body
C12_Witness ==
    /\ CreateParsed
    /\ Resp.Body.content = ""
    /\ out.err # Nil
    /\ Deref(out.err).ResponsePayload = Ptr("")
    /\ Deref(out.err).Cause = Ptr("unexpected end of JSON input")

(***************************************************************************)
(* C13: when the serializer fails, Create returns HTTPError{"Unable to     *)
(* serialize payload", Cause = the serializer's error, StatusCode 0, nil   *)
(* payload} and the POST primitive is never invoked; when the request      *)
(* cannot be built, Delete returns HTTPError{"Error preparing Delete Http  *)
(* request", Cause = the builder's error, StatusCode 0, nil payload} and   *)
(* the execute-request primitive is never invoked.                         *)
(***************************************************************************)
C13_SerializeAndBuildErrors ==
    /\ (op = "Create" /\ env.serializeErr # Nil) =>
          /\ ReturnedError([Cause |-> env.serializeErr,
                            Message |-> "Unable to serialize payload",
                            StatusCode |-> 0,
                            ResponsePayload |-> Nil])
          /\ Invoked("serialize")
          /\ ~Invoked("doHttpPost")
    /\ (op = "Delete" /\ args.id \in ValidIds /\ env.buildErr # Nil) =>
          /\ ReturnedError([Cause |-> env.buildErr,
                            Message |-> "Error preparing Delete Http request",
                            StatusCode |-> 0,
                            ResponsePayload |-> Nil])
          /\ Invoked("createNewRequest")
          /\ ~Invoked("doRequest")
\* the builder fails while the transport would have answered 204
C13_Witness ==
    /\ op = "Delete" /\ args.id \in ValidIds
    /\ env.buildErr = Ptr("error 2")
    /\ ResponseReceived /\ Resp.StatusCode = 204
    /\ out.err # Nil /\ Deref(out.err).Message = "Error preparing Delete Http request"
    /\ ~Invoked("doRequest")

(***************************************************************************)
(* C14: Create performs no Content-Type check: whatever the Content-Type   *)
(* of a 201 response (absent, text/html, application/json), a valid        *)
(* envelope with non-empty data yields that AccountData and a nil error,   *)
(* and no error of a 201 response is the unexpected-content-type error.    *)
(***************************************************************************)
C14_CreateIgnoresContentType ==
    /\ (CreateParsed /\ Resp.Body.content = EnvelopeBody) =>
          /\ out.ret = "returned"
          /\ out.err = Nil
          /\ out.data = Ptr(EnvelopeAccount)
    /\ (CreateParsed /\ out.ret = "returned" /\ out.err # Nil) =>
          Deref(out.err).Message \in {"Error deserializing json", EmptyObjectMessage}
\* a 201 labelled text/html that carries the envelope
C14_Witness ==
    /\ CreateParsed
    /\ Resp.ContentType = "text/html" /\ Resp.Body.content = EnvelopeBody
    /\ out.err = Nil /\ out.data = Ptr(EnvelopeAccount)

\* the call failed with an HTTPError
Failed == op # "idle" /\ out.ret = "returned" /\ out.err # Nil
\* the call got a response, and its body was asked for and read in full
BodyRead ==
    /\ FetchPlaced \/ CreatePlaced \/ DeletePlaced
    /\ ResponseReceived
    /\ op = "Delete" => Resp.StatusCode # 204
    /\ Resp.Body.readErr = Nil

(***************************************************************************)
(* C16: the ResponsePayload of every HTTPError returned by Fetch, Create   *)
(* or Delete is non-nil exactly when the body had been read successfully   *)
(* before the failure, and is then the bytes read: it is set on the        *)
(* unexpected-status, unexpected-content-type, deserialization and         *)
(* empty-payload errors, and nil on the invalid-id, serialization,         *)
(* request-build, transport and body-read errors.                          *)
(***************************************************************************)
C16_PayloadIffBodyRead ==
    Failed =>
        LET e == Deref(out.err)
            withoutBody == {"id must be a valid uuid", "Unable to serialize payload",
                            "Error preparing Delete Http request",
                            "Error placing a Get Http request",
                            "Error placing a Post Http request",
                            "Error placing Delete Http request",
                            "Error processing response body"}
        IN  /\ (e.ResponsePayload # Nil) <=> BodyRead
            /\ BodyRead => e.ResponsePayload = Ptr(Resp.Body.content)
            /\ (e.ResponsePayload = Nil) <=> (e.Message \in withoutBody)
\* Fetch refuses a text/html 200 and hands the envelope it carried back
C16_Witness ==
    /\ FetchRead
    /\ Resp.StatusCode = 200 /\ Resp.ContentType = "text/html"
    /\ Resp.Body.content = EnvelopeBody
    /\ Failed /\ Deref(out.err).ResponsePayload = Ptr(EnvelopeBody)

(***************************************************************************)
(* C17: the StatusCode of every HTTPError returned is 0 whenever no        *)
(* response was received (invalid id, serialization failure, request-build *)
(* failure, transport failure), and whenever it is not 0 it is the status  *)
(* code of the response the operation received.                            *)
(***************************************************************************)
C17_StatusCodeOfError ==
    Failed =>
        LET received == (FetchPlaced \/ CreatePlaced \/ DeletePlaced) /\ ResponseReceived
        IN  /\ ~received => Deref(out.err).StatusCode = 0
            /\ Deref(out.err).StatusCode # 0 =>
                   received /\ Deref(out.err).StatusCode = Resp.StatusCode
\* Create is answered 200, which is not the status it expects
C17_Witness ==
    /\ CreateRead
    /\ Resp.StatusCode = 200
    /\ Failed /\ Deref(out.err).StatusCode = 200

\* the primitives a call invoked, in order, the deferred Close left out
StageLog ==
    LET staged == SelectSeq(out.calls, LAMBDA c : c.fn # "Body.Close")
    IN  [i \in DOMAIN staged |-> staged[i].fn]
\* the stages of each operation that go through a primitive, in program order
Stages ==
    CASE op = "Fetch" -> <<"doHttpGet", "readInput", "json.Unmarshal">>
      [] op = "Create" -> <<"serialize", "doHttpPost", "readInput", "json.Unmarshal">>
      [] op = "Delete" -> <<"createNewRequest", "doRequest", "readInput">>
\* how many of them run, given what each primitive hands back in this call
StagesRun ==
    LET answered == env.transport.err = Nil /\ env.transport.resp # Nil
    IN  CASE op = "Fetch" ->
               IF args.id \notin ValidIds THEN 0
               ELSE IF ~answered THEN 1
               ELSE IF Resp.Body.readErr # Nil \/ Resp.StatusCode # 200
                       \/ Resp.ContentType \notin JsonContentTypes THEN 2
               ELSE 3
          [] op = "Create" ->
               IF env.serializeErr # Nil THEN 1
               ELSE IF ~answered THEN 2
               ELSE IF Resp.Body.readErr # Nil \/ Resp.StatusCode # 201 THEN 3
               ELSE 4
          [] op = "Delete" ->
               IF args.id \notin ValidIds THEN 0
               ELSE IF env.buildErr # Nil THEN 1
               ELSE IF ~answered \/ Resp.StatusCode = 204 THEN 2
               ELSE 3

(***************************************************************************)
(* C18: a call invokes its network primitive at most once and the body     *)
(* reader at most once, runs its stages in order and stops at the first    *)
(* one that fails: no stage is retried and none runs after a failure; a    *)
(* failed call returns one HTTPError, that of the stage that failed.       *)
(***************************************************************************)
C18_StagesRunOnceInOrder ==
    op # "idle" =>
        /\ StageLog = SubSeq(Stages, 1, StagesRun)
        /\ Cardinality({i \in DOMAIN out.calls : out.calls[i].fn = "Body.Close"}) <= 1
        /\ Failed =>
              LET message == Deref(out.err).Message
                  last == IF StagesRun = 0 THEN "none" ELSE Stages[StagesRun]
              IN  CASE last = "none" -> message = "id must be a valid uuid"
                    [] last = "serialize" -> message = "Unable to serialize payload"
                    [] last = "createNewRequest" ->
                           message = "Error preparing Delete Http request"
                    [] last = TransportFn ->
                           message \in {"Error placing a Get Http request",
                                        "Error placing a Post Http request",
                                        "Error placing Delete Http request"}
                    [] last = "readInput" ->
                           IF Resp.Body.readErr # Nil
                           THEN message = "Error processing response body"
                           ELSE HasPrefix(message, "Unexpected ")
                    [] last = "json.Unmarshal" ->
                           message \in {"Error deserializing json", EmptyObjectMessage}
\* the body of a 200 cannot be read: Fetch stops there, the parser never runs
C18_Witness ==
    /\ FetchPlaced /\ ResponseReceived
    /\ Resp.StatusCode = 200 /\ Resp.ContentType = "application/json"
    /\ Resp.Body.readErr # Nil /\ Resp.Body.content = EnvelopeBody
    /\ StageLog = <<"doHttpGet", "readInput">>
    /\ Failed /\ Deref(out.err).Message = "Error processing response body"

\* the body Create handed to the POST primitive
RequestBody == out.calls[2].args[3]

\* the strings a Go value of type kind holds
RECURSIVE StringsIn(_, _)
StringsIn(kind, v) ==
    CASE kind = "string" -> {v}
      [] v = Nil -> {}
      [] kind = "*string" -> {Deref(v)}
      [] kind = "[]string" -> {Deref(v)[i] : i \in DOMAIN Deref(v)}
      [] kind \in StructKinds ->
             UNION {StringsIn(StructFields(kind)[i][3], Deref(v)[StructFields(kind)[i][2]]) :
                        i \in DOMAIN StructFields(kind)}
      [] OTHER -> {}
ValidUTF8(str) == \A i \in 1..Len(str) : Ch(str, i) # InvalidByte
\* Create was answered 201 with the body it had sent
Echoed ==
    /\ CreateParsed
    /\ args.account # Nil
    /\ Invoked("doHttpPost")
    /\ Resp.Body.content = RequestBody

(***************************************************************************)
(* C19 as stated: round trip through Create: for every AccountData         *)
(* (optional pointer fields present or absent, list fields nil or          *)
(* populated), when the server answers 201 with the request body           *)
(* unchanged, Create returns a nil error and an AccountData deep-equal to  *)
(* the one passed in.                                                      *)
(* Violated: the encoder writes a byte that is not valid UTF-8 as the      *)
(* escape of U+FFFD, so a string that holds one comes back changed.        *)
(***************************************************************************)
C19_CreateRoundTrip ==
    Echoed =>
        /\ out.ret = "returned"
        /\ out.err = Nil
        /\ out.data = args.account

(***************************************************************************)
(* C19, amended: the round trip through Create holds for every AccountData *)
(* whose strings are valid UTF-8 (optional pointer fields present or       *)
(* absent, list fields nil or populated): when the server answers 201 with *)
(* the request body unchanged, Create returns a nil error and an           *)
(* AccountData deep-equal to the one passed in, absent optional fields     *)
(* still absent and present ones equal in value.  With a string that is    *)
(* not valid UTF-8 the call still succeeds, and the AccountData returned   *)
(* differs from the one passed in.                                         *)
(***************************************************************************)
C19_CreateRoundTripOfValidText ==
    Echoed =>
        /\ out.ret = "returned"
        /\ out.err = Nil
        /\ out.data # Nil
        /\ (\A str \in StringsIn("*AccountData", args.account) : ValidUTF8(str))
               <=> out.data = args.account
\* every optional field present, two of them pointing at "" and 0
C19_Witness ==
    /\ Echoed
    /\ args.account = Ptr(FullAccount)
    /\ Deref(Deref(args.account).Attributes).Country = Ptr("")
    /\ Deref(args.account).Version = Ptr(0)
    /\ Len(RequestBody) > 400
    /\ out.err = Nil /\ out.data = Ptr(FullAccount)

Factories ==
    {"MakeClient", "MakeTestClientWithInputReader", "MakeTestClientWithHttpGetter",
     "MakeTestClientWithHttpPoster", "MakeTestClientWithNewRequestCreator",
     "MakeTestClientWithRequestInvoker", "MakeTestClientWithSerializer"}

(***************************************************************************)
(* C15: MakeClient and every MakeTestClientWith* factory return exactly    *)
(* one of a client and an error: for every base address that is not a      *)
(* well-formed absolute URL a nil client and the error "invalid URL        *)
(* provided", for every well-formed absolute URL a client and a nil error. *)
(* Violated: url.ParseRequestURI also takes an absolute path, "*" and a    *)
(* network path, so "/v1" yields a client.                                 *)
(***************************************************************************)
C15_ConstructionValidatesBaseUrl ==
    op \in Factories =>
        /\ (out.client = Nil) # (out.err = Nil)
        /\ args.baseUrl \in AbsoluteUrls => out.client # Nil /\ out.err = Nil
        /\ args.baseUrl \notin AbsoluteUrls =>
               out.client = Nil /\ out.err = Ptr("invalid URL provided")

\* the call of caller t is over
Finished(t) == out[t].ret \in {"returned", "panicked"}

C23_NilResponseNeverUsed ==
    ((FetchPlaced \/ CreatePlaced \/ DeletePlaced) /\ env.transport.resp = Nil) =>
        /\ out.ret = "returned"
        /\ out.err # Nil
        /\ ~Invoked("readInput")

\* the primitive each factory takes as its second argument
InjectedRole ==
    [f \in Factories |->
        CASE f = "MakeClient" -> "none"
          [] f = "MakeTestClientWithInputReader" -> "readInput"
          [] f = "MakeTestClientWithHttpGetter" -> "doHttpGet"
          [] f = "MakeTestClientWithHttpPoster" -> "doHttpPost"
          [] f = "MakeTestClientWithNewRequestCreator" -> "createNewRequest"
          [] f = "MakeTestClientWithRequestInvoker" -> "doRequest"
          [] f = "MakeTestClientWithSerializer" -> "serialize"]
\* the standard implementation of each role
Standard ==
    [readInput |-> "io.ReadAll", doHttpGet |-> "client.Get", doHttpPost |-> "client.Post",
     createNewRequest |-> "http.NewRequest", doRequest |-> "client.Do",
     serialize |-> "json.Marshal"]

(***************************************************************************)
(* C24: primitive substitution is individual: init() gives a default only  *)
(* to a primitive that is nil and never overwrites one that is set, so the *)
(* client of a MakeTestClientWith* factory holds the injected function in  *)
(* that one role and the standard implementation in the other five, and    *)
(* after any factory succeeds all six primitives are non-nil (a nil        *)
(* function handed to a factory leaves the standard one in its role).      *)
(***************************************************************************)
C24_PrimitiveSubstitution ==
    (op \in Factories /\ out.client # Nil) =>
        \A role \in DOMAIN Standard :
            /\ Deref(out.client)[role] # Nil
            /\ Deref(out.client)[role] =
                   IF role = InjectedRole[op] /\ args.primitive # Nil
                   THEN args.primitive
                   ELSE Ptr(Standard[role])
\* a client made with an injected POST primitive
C24_Witness ==
    /\ op = "MakeTestClientWithHttpPoster"
    /\ args.primitive = Ptr("injected")
    /\ out.client # Nil
    /\ Deref(out.client).doHttpPost = Ptr("injected")
    /\ Deref(out.client).doHttpGet = Ptr("client.Get")
    /\ Deref(out.client).serialize = Ptr("json.Marshal")

\* the requests a call handed to a primitive that sends one
RequestsSent ==
    SelectSeq(out.calls, LAMBDA c : c.fn \in {"doHttpGet", "doHttpPost", "doRequest"})

(***************************************************************************)
(* C22: request targets: for base address B, valid id I and version V,     *)
(* Fetch issues exactly one request, a GET to                              *)
(* B + "/v1/organisation/accounts/" + I; Create exactly one, a POST to     *)
(* B + "/v1/organisation/accounts" with content type "application/json"    *)
(* and the body {"data": <resource>}; Delete exactly one, a DELETE to      *)
(* B + "/v1/organisation/accounts/" + I + "?version=" + V in decimal, with *)
(* no body.                                                                *)
(***************************************************************************)
C22_RequestTargets ==
    /\ FetchPlaced =>
          RequestsSent =
              <<[fn |-> "doHttpGet",
                 args |-> <<hac.host \o "/v1/organisation/accounts/" \o args.id>>]>>
    /\ CreatePlaced =>
          /\ Len(RequestsSent) = 1
          /\ RequestsSent[1].fn = "doHttpPost"
          /\ RequestsSent[1].args[1] = hac.host \o "/v1/organisation/accounts"
          /\ RequestsSent[1].args[2] = "application/json"
          /\ LET body == RequestsSent[1].args[3]
                 resource == SubSeq(body, 9, Len(body) - 1)
             IN  /\ SubSeq(body, 1, 8) = "{\"data\":"
                 /\ Ch(body, Len(body)) = "}"
                 /\ IF args.account = Nil THEN resource = "null"
                    ELSE Ch(resource, 1) = "{" /\ Ch(resource, Len(resource)) = "}"
    /\ DeletePlaced =>
          LET target == hac.host \o "/v1/organisation/accounts/" \o args.id \o "?version="
                            \o (IF args.version = 0 THEN "0" ELSE "32")
          IN  /\ out.calls[1] = [fn |-> "createNewRequest", args |-> <<"DELETE", target, Nil>>]
              /\ RequestsSent = <<[fn |-> "doRequest", args |-> <<"DELETE", target, Nil>>]>>
\* a Delete of version 32 on the client of a base address with a path
C22_Witness ==
    /\ DeletePlaced
    /\ args.id = "0d209d7f-d07a-4542-947f-5885fddddae2" /\ args.version = 32
    /\ hac.host = "https://api.example.com/base"
    /\ RequestsSent # <<>>
    /\ RequestsSent[1].args[2] =
           "https://api.example.com/base/v1/organisation/accounts/"
               \o "0d209d7f-d07a-4542-947f-5885fddddae2?version=32"

\* callers t and u made the same call and the primitives failed them alike
SameCall(t, u) ==
    /\ op[t] = op[u]
    /\ args[t] = args[u]
    /\ env[t].transport = env[u].transport
    /\ op[t] = "Create" => env[t].serializeErr = env[u].serializeErr
    /\ op[t] = "Delete" => env[t].buildErr = env[u].buildErr

====
